---- MODULE Spec2Model ----
(***************************************************************************)
(* A model of skytide-image-generator:                                     *)
(*   - the daily-schedule layout engine, generateAgendaHTML, of            *)
(*     whatsapp-agenda-notifications.js (specification Spec);              *)
(*   - the POST /generate-image handler of the HTTP service                *)
(*     (specification HttpSpec);                                           *)
(*   - the HTTP service's process under SIGINT, SIGTERM, uncaughtException *)
(*     and unhandledRejection (specification ServiceSpec);                 *)
(*   - one run of the scheduled job, exports.handler of                    *)
(*     whatsapp-agenda-notifications.js (specification JobSpec).           *)
(*                                                                         *)
(* JavaScript values are modelled as follows.  A value that may be null or *)
(* undefined is a sequence of length 0 (absent) or 1 (present).  A time    *)
(* string "HH:MM" is the record [hh, mm] of the two numbers its two fields *)
(* parse to.  A double is modelled only where the code divides: see        *)
(* ScaleToTrack.                                                           *)
(***************************************************************************)
EXTENDS Integers, Sequences, FiniteSets, TLC

VARIABLES
    memberGroups,   \* the memberGroups object handed to generateAgendaHTML
    html,           \* None, or the render model generateAgendaHTML returned
    browserInstance,\* the HTTP service's global: None, or the browser it holds
    browsers,       \* the browsers launched so far, each connected or not
    pages,          \* the pages opened so far, each open or closed
    uploads,        \* the uploads to the storage bucket attempted so far
    requests,       \* the POST /generate-image requests, each with its position
    exited,         \* the HTTP service's process has called process.exit
    cleanups,       \* the calls of cleanup() so far, each with its browser.close()
    job,            \* the scheduled job's handler: its position and its locals
    configsToProcess, \* the configurations the scheduled job loops over
    results,        \* the scheduled job's results array
    effects,        \* what the scheduled job has asked of its collaborators, in order
    returned        \* None, or what the scheduled job's handler returned

layoutVars == <<memberGroups, html>>
httpVars == <<browserInstance, browsers, pages, uploads, requests>>
processVars == <<exited, cleanups>>
jobVars == <<job, configsToProcess, results, effects, returned>>

----------------------------------------------------------------------------
(* Optional values and small helpers                                       *)

None == <<>>
Some(v) == <<v>>
IsSome(o) == Len(o) > 0
Get(o) == o[1]

Time(h, m) == [hh |-> h, mm |-> m]

MinOf(S) == CHOOSE x \in S : \A y \in S : x <= y
MaxOf(S) == CHOOSE x \in S : \A y \in S : x >= y
Abs(x) == IF x < 0 THEN 0 - x ELSE x

RECURSIVE Pow2(_)
Pow2(n) == IF n <= 0 THEN 1 ELSE 2 * Pow2(n - 1)

----------------------------------------------------------------------------
(* Bounds of the model and constants of the program                        *)

\* the number of appointment rows one input holds at most
MaxAppointments == 3
\* the number of POST /generate-image requests the service receives
MaxRequests == 2
\* the number of signals and process-level faults the service's process gets
MaxSignals == 2
\* the number of requests the service receives in the runs that end by a signal
MaxServiceRequests == 1
\* the number of configurations one run of the scheduled job processes
MaxConfigs == 2

DefaultDurationMinutes == 30   \* fallback duration
MarginMinutes == 60            \* margin before and after the day's activity
DayMinutes == 1440             \* 24 * 60
DefaultStartHour == 8
DefaultEndHour == 18
HourPx == 120                  \* pixels per hour of a member column
MantissaBits == 52             \* fraction bits of a double

----------------------------------------------------------------------------
(* The appointments table the inputs are drawn from.  Every start_time is  *)
(* a well-formed time of day; an end_time, when present, is any            *)
(* well-formed time of day (an appointment that crosses midnight, or one   *)
(* entered backwards, ends before it starts); a duration, when present, is *)
(* positive.                                                               *)

Row(id, member, start, end, dur, status) ==
    [id |-> id, member_id |-> member, start_time |-> start, end_time |-> end,
     services |-> [duration_minutes |-> dur], status |-> status]

Rows ==
    { Row(1, Some("m1"), Time(9, 0),   Some(Time(9, 30)),  Some(45), Some("confirmada")),
      Row(2, Some("m1"), Time(9, 15),  Some(Time(9, 45)),  None,     None),
      Row(3, Some("m1"), Time(9, 30),  Some(Time(10, 0)),  None,     Some("foo")),
      Row(4, Some("m1"), Time(9, 0),   None,               Some(45), Some("programada")),
      Row(5, Some("m1"), Time(7, 30),  Some(Time(8, 0)),   None,     Some("completada")),
      Row(6, Some("m1"), Time(23, 45), None,               None,     None),
      Row(7, None,       Time(10, 0),  None,               Some(45), Some("en_curso")),
      Row(8, None,       Time(0, 30),  Some(Time(1, 0)),   None,     Some("no_asistio")),
      Row(9, None,       Time(23, 30), Some(Time(0, 30)),  Some(60), Some("confirmada")),
      Row(10, None,      Time(10, 0),  Some(Time(8, 0)),   None,     None),
      Row(11, None,      Time(23, 0),  Some(Time(23, 45)), None,     Some("cancelada")),
      Row(12, None,      Time(9, 50),  None,               Some(20), Some("foo")),
      Row(13, Some("m1"), Time(10, 0), None,               Some(60), None),
      Row(14, None,      Time(16, 0),  Some(Time(17, 0)),  None,     Some("programada")) }

----------------------------------------------------------------------------
(* Time utilities                                                          *)

timeToMinutes(timeString) == timeString.hh * 60 + timeString.mm

\* minutesToTime with the hour taken modulo 24
minutesToTimeWrapping(minutes) == Time((minutes \div 60) % 24, minutes % 60)

\* minutesToTime with Math.round in place of Math.floor
minutesToTimeRounding(minutes) == Time((minutes + 30) \div 60, minutes % 60)

minutesToTime(minutes) == Time(minutes \div 60, minutes % 60)

----------------------------------------------------------------------------
(* The caller's grouping of appointment rows by member                     *)

memberKeyOf(appointment) ==
    IF IsSome(appointment.member_id) THEN Get(appointment.member_id) ELSE "sin-asignar"

EmptyGroup(key) == [key |-> key, appointments |-> <<>>]

HasGroup(groups, key) == \E g \in 1..Len(groups) : groups[g].key = key

GroupIndex(groups, key) == CHOOSE g \in 1..Len(groups) : groups[g].key = key

PushAppointment(groups, appointment) ==
    LET key == memberKeyOf(appointment)
        withKey == IF HasGroup(groups, key) THEN groups
                   ELSE Append(groups, EmptyGroup(key))
        g == GroupIndex(withKey, key)
    IN  [withKey EXCEPT ![g].appointments = Append(@, appointment)]

AllAppointments(groups) ==
    UNION { { groups[g].appointments[i] : i \in 1..Len(groups[g].appointments) }
            : g \in 1..Len(groups) }

NumAppointments(groups) == Cardinality(AllAppointments(groups))

----------------------------------------------------------------------------
(* generateAgendaHTML: end-time derivation                                 *)

\* deriveEndTime with the service duration taking precedence over an explicit end
deriveEndTimeDurationFirst(apt) ==
    IF IsSome(apt.services.duration_minutes)
       /\ Get(apt.services.duration_minutes) # 0
    THEN minutesToTime(timeToMinutes(apt.start_time)
                       + Get(apt.services.duration_minutes))
    ELSE IF IsSome(apt.end_time)
         THEN Get(apt.end_time)
         ELSE minutesToTime(timeToMinutes(apt.start_time) + DefaultDurationMinutes)

deriveEndTime(apt) ==
    IF IsSome(apt.end_time)
    THEN Get(apt.end_time)
    ELSE IF IsSome(apt.services.duration_minutes)
              /\ Get(apt.services.duration_minutes) # 0
         THEN minutesToTime(timeToMinutes(apt.start_time)
                            + Get(apt.services.duration_minutes))
         ELSE minutesToTime(timeToMinutes(apt.start_time) + DefaultDurationMinutes)

statusOrDefault(apt) ==
    IF IsSome(apt.status) THEN Get(apt.status) ELSE "programada"

members(groups) ==
    [g \in 1..Len(groups) |->
        [appointments |->
            [i \in 1..Len(groups[g].appointments) |->
                LET apt == groups[g].appointments[i]
                IN  [start_time |-> apt.start_time,
                     end_time |-> deriveEndTime(apt),
                     status |-> statusOrDefault(apt)]]]]

----------------------------------------------------------------------------
(* generateAgendaHTML: the view window                                     *)

MemberAppointments(mems) ==
    UNION { { mems[g].appointments[i] : i \in 1..Len(mems[g].appointments) }
            : g \in 1..Len(mems) }

\* the scan: the running minimum starts at 24:00, the running maximum at 00:00
scanEarliest(mems) ==
    MinOf({DayMinutes} \cup { timeToMinutes(a.start_time) : a \in MemberAppointments(mems) })

scanLatest(mems) ==
    MaxOf({0} \cup { timeToMinutes(a.end_time) : a \in MemberAppointments(mems) })

\* latestTime without the upper clamp at 24:00
latestTimeUnclamped(mems) ==
    IF scanEarliest(mems) = DayMinutes
    THEN DefaultEndHour * 60
    ELSE scanLatest(mems) + MarginMinutes

\* earliestTime with the margin applied to the default window as well
earliestTimeAlwaysPadded(mems) ==
    IF scanEarliest(mems) = DayMinutes
    THEN DefaultStartHour * 60 - MarginMinutes
    ELSE MaxOf({0, scanEarliest(mems) - MarginMinutes})

\* earliestTime without the hour of margin
earliestTimeWithoutMargin(mems) ==
    IF scanEarliest(mems) = DayMinutes THEN DefaultStartHour * 60
    ELSE scanEarliest(mems)

earliestTime(mems) ==
    IF scanEarliest(mems) = DayMinutes
    THEN DefaultStartHour * 60
    ELSE MaxOf({0, scanEarliest(mems) - MarginMinutes})

latestTime(mems) ==
    IF scanEarliest(mems) = DayMinutes
    THEN DefaultEndHour * 60
    ELSE MinOf({DayMinutes, scanLatest(mems) + MarginMinutes})

\* Math.floor and Math.ceil of n / 60 for an integer n >= 0
FloorHour(n) == n \div 60
CeilHour(n) == (n + 59) \div 60

viewWindow(mems) ==
    LET startHour == FloorHour(earliestTime(mems))
        endHour == CeilHour(latestTime(mems))
    IN  [startHour |-> startHour,
         endHour |-> endHour,
         totalMinutes |-> (endHour - startHour) * 60,
         startMinutes |-> startHour * 60]

----------------------------------------------------------------------------
(* generateAgendaHTML: overlap detection and column assignment             *)

\* Array.prototype.sort is stable: an element goes after those that compare
\* lower or equal
RECURSIVE InsertSorted(_, _)
InsertSorted(sorted, apt) ==
    IF sorted = <<>> THEN <<apt>>
    ELSE IF timeToMinutes(apt.start_time) - timeToMinutes(sorted[Len(sorted)].start_time) >= 0
         THEN Append(sorted, apt)
         ELSE Append(InsertSorted(SubSeq(sorted, 1, Len(sorted) - 1), apt),
                     sorted[Len(sorted)])

RECURSIVE SortFrom(_, _, _)
SortFrom(appointments, i, sorted) ==
    IF i > Len(appointments) THEN sorted
    ELSE SortFrom(appointments, i + 1, InsertSorted(sorted, appointments[i]))

sortedAppointments(appointments) == SortFrom(appointments, 1, <<>>)

\* blocksColumn with the two ends of the existing appointment swapped
blocksColumnEndsSwapped(existing, column, startMin, endMin) ==
    /\ existing.column = column
    /\ ~(endMin <= timeToMinutes(existing.end_time)
         \/ startMin >= timeToMinutes(existing.start_time))

\* blocksColumn with closed ranges: an appointment that starts when another
\* ends is taken to overlap it
blocksColumnClosed(existing, column, startMin, endMin) ==
    /\ existing.column = column
    /\ ~(endMin < timeToMinutes(existing.start_time)
         \/ startMin > timeToMinutes(existing.end_time))

\* the test of the while loop: existing blocks the column for [startMin, endMin)
blocksColumn(existing, column, startMin, endMin) ==
    /\ existing.column = column
    /\ ~(endMin <= timeToMinutes(existing.start_time)
         \/ startMin >= timeToMinutes(existing.end_time))

\* a search that, when column 0 is taken, goes past every column in use
\* instead of trying the next one
findColumnAfterLast(placed, column, startMin, endMin) ==
    IF \E i \in 1..Len(placed) : blocksColumn(placed[i], column, startMin, endMin)
    THEN MaxOf({ placed[i].column : i \in 1..Len(placed) }) + 1
    ELSE column

RECURSIVE findColumn(_, _, _, _)
findColumn(placed, column, startMin, endMin) ==
    IF \E i \in 1..Len(placed) : blocksColumn(placed[i], column, startMin, endMin)
    THEN findColumn(placed, column + 1, startMin, endMin)
    ELSE column

placeAppointment(placed, appointment) ==
    LET startMin == timeToMinutes(appointment.start_time)
        endMin == timeToMinutes(appointment.end_time)
    IN  Append(placed,
               [start_time |-> appointment.start_time,
                end_time |-> appointment.end_time,
                status |-> appointment.status,
                column |-> findColumn(placed, 0, startMin, endMin),
                startMinutes |-> startMin,
                endMinutes |-> endMin,
                duration |-> endMin - startMin])

RECURSIVE placeFrom(_, _, _)
placeFrom(sorted, i, placed) ==
    IF i > Len(sorted) THEN placed
    ELSE placeFrom(sorted, i + 1, placeAppointment(placed, sorted[i]))

appointmentsWithColumns(appointments) ==
    placeFrom(sortedAppointments(appointments), 1, <<>>)

\* Math.max(...columns, 0) + 1
maxColumnsOf(placed) ==
    MaxOf({0} \cup { placed[i].column : i \in 1..Len(placed) }) + 1

processedMembers(mems) ==
    [g \in 1..Len(mems) |->
        LET placed == appointmentsWithColumns(mems[g].appointments)
        IN  [appointments |-> placed, maxColumns |-> maxColumnsOf(placed)]]

----------------------------------------------------------------------------
(* JavaScript arithmetic of the geometry.  The code computes                *)
(*     (x / totalMinutes) * ((endHour - startHour) * 120)                   *)
(* in doubles, where totalMinutes = (endHour - startHour) * 60, so the      *)
(* second factor is 2 * totalMinutes.  With a = |x| and b = |totalMinutes|  *)
(* the quotient is rounded to a 53-bit significand M, M * b = a * 2^k + d   *)
(* with |d| <= b / 2, and the exact product is 2a + d * 2^(1-k), which is   *)
(* rounded again.  The result is 2x plus a whole number of half units in    *)
(* the last place of 2x: the record [nan, int, halfUlps].                   *)

Number(i) == [nan |-> FALSE, int |-> i, halfUlps |-> 0]
NaN == [nan |-> TRUE, int |-> 0, halfUlps |-> 0]

RECURSIVE FloorLog2(_)
FloorLog2(n) == IF n < 2 THEN 0 ELSE 1 + FloorLog2(n \div 2)

\* floor(log2(a / b)) for a >= 1, b >= 1
RECURSIVE RatioLog2(_, _)
RatioLog2(a, b) ==
    IF a >= 2 * b THEN 1 + RatioLog2(a, 2 * b)
    ELSE IF a >= b THEN 0
    ELSE RatioLog2(2 * a, b) - 1

RECURSIVE Pow2Mod(_, _)
Pow2Mod(k, b) == IF k <= 0 THEN 1 % b ELSE (2 * Pow2Mod(k - 1, b)) % b

\* d of the rounded quotient a / b: M * b - a * 2^k, round to nearest, ties to even
quotientError(a, b) ==
    LET k == MantissaBits - RatioLog2(a, b)
        r == ((a % b) * Pow2Mod(k, b)) % b
        r2 == ((a % (2 * b)) * Pow2Mod(k, 2 * b)) % (2 * b)
        floorIsEven == (r2 \div b) % 2 = 0
    IN  IF 2 * r < b THEN 0 - r
        ELSE IF 2 * r > b THEN b - r
        ELSE IF floorIsEven THEN 0 - r ELSE b - r

\* the rounding of 2a + d * 2^(1-k), in half units in the last place of 2a
productHalfUlps(a, b) ==
    LET d == quotientError(a, b)
        e == FloorLog2(2 * a)
        s == e - RatioLog2(a, b) - 1
    IN  IF d >= 0
        THEN IF 2 * d > Pow2(s) THEN 2 ELSE 0
        ELSE IF 2 * a # Pow2(e)
             THEN IF 2 * (0 - d) > Pow2(s) THEN 0 - 2 ELSE 0
             \* below a power of two the doubles are twice as dense
             ELSE IF 4 * (0 - d) <= Pow2(s) THEN 0
                  ELSE IF 4 * (0 - d) < 3 * Pow2(s) THEN 0 - 1
                  ELSE 0 - 2

\* (x / (hours * 60)) * (hours * 120)
ScaleToTrack(x, hours) ==
    IF hours = 0 THEN NaN
    ELSE IF x = 0 THEN Number(0)
    ELSE [nan |-> FALSE,
          int |-> 2 * x,
          halfUlps |-> (IF x < 0 THEN 0 - 1 ELSE 1)
                       * productHalfUlps(Abs(x), Abs(hours * 60))]

----------------------------------------------------------------------------
(* generateAgendaHTML: the markup of the member columns and its stylesheet *)

APPOINTMENT_STATES ==
    [programada |-> [label |-> "Programada", bgColor |-> "#f3f4f6",
                     borderColor |-> "#9ca3af", textColor |-> "#374151"],
     confirmada |-> [label |-> "Confirmada", bgColor |-> "#dcfce7",
                     borderColor |-> "#16a34a", textColor |-> "#166534"],
     en_curso   |-> [label |-> "En curso", bgColor |-> "#e0e7ff",
                     borderColor |-> "#6366f1", textColor |-> "#4338ca"],
     completada |-> [label |-> "Completada", bgColor |-> "#dbeafe",
                     borderColor |-> "#3b82f6", textColor |-> "#1e40af"],
     cancelada  |-> [label |-> "Cancelada", bgColor |-> "#fee2e2",
                     borderColor |-> "#dc2626", textColor |-> "#991b1b"],
     no_asistio |-> [label |-> "No asistió", bgColor |-> "#fed7aa",
                     borderColor |-> "#ea580c", textColor |-> "#9a3412"]]

\* a class of the class attribute: a name, and the number a "column-N" class carries
Class(name) == [name |-> name, n |-> 0]
ColumnClass(n) == [name |-> "column-", n |-> n]

\* class="appointment ${status} ${hasOverlap ? 'appointment-overlap' : ''}
\*        ${column > 0 ? 'column-' + column : ''}"
classList(appointment, hasOverlap) ==
    {Class("appointment"), Class(appointment.status)}
    \cup (IF hasOverlap THEN {Class("appointment-overlap")} ELSE {})
    \cup (IF appointment.column > 0 THEN {ColumnClass(appointment.column)} ELSE {})

\* appointmentBox with the top offset measured from midnight, not from the
\* start of the window
appointmentBoxFromMidnight(appointment, maxColumns, window) ==
    LET hours == window.endHour - window.startHour
        hasOverlap == maxColumns > 1
    IN  [start_time |-> appointment.start_time,
         end_time |-> appointment.end_time,
         status |-> appointment.status,
         column |-> appointment.column,
         top |-> ScaleToTrack(appointment.startMinutes, hours),
         height |-> ScaleToTrack(appointment.duration, hours),
         classes |-> classList(appointment, hasOverlap)]

appointmentBox(appointment, maxColumns, window) ==
    LET hours == window.endHour - window.startHour
        hasOverlap == maxColumns > 1
    IN  [start_time |-> appointment.start_time,
         end_time |-> appointment.end_time,
         status |-> appointment.status,
         column |-> appointment.column,
         top |-> ScaleToTrack(appointment.startMinutes - window.startMinutes, hours),
         height |-> ScaleToTrack(appointment.duration, hours),
         classes |-> classList(appointment, hasOverlap)]

memberColumns(processed, window) ==
    [g \in 1..Len(processed) |->
        [height |-> (window.endHour - window.startHour) * HourPx,
         maxColumns |-> processed[g].maxColumns,
         appointments |->
            [i \in 1..Len(processed[g].appointments) |->
                appointmentBox(processed[g].appointments[i],
                               processed[g].maxColumns, window)]]]

\* the stylesheet: which declarations win for an element with these classes
\*   .appointment { left: 4px; right: 4px }
\*   .appointment-overlap { right: 50% !important }
\*   .appointment-overlap.column-1 { left: 50% !important; right: 4px !important }
\* the right-half rule matching every column-N class, not column-1 alone
matchesAnyColumnRule(classes) ==
    /\ Class("appointment-overlap") \in classes
    /\ \E c \in classes : c.name = "column-"

matchesColumn1Rule(classes) ==
    Class("appointment-overlap") \in classes /\ ColumnClass(1) \in classes

cssLeft(classes) ==
    IF matchesColumn1Rule(classes) THEN "50%" ELSE "4px"

cssRight(classes) ==
    IF matchesColumn1Rule(classes) THEN "4px"
    ELSE IF Class("appointment-overlap") \in classes THEN "50%"
    ELSE "4px"

\*   .appointment.${status} { background; border-color; color }, one rule per
\*   key of APPOINTMENT_STATES; an element no rule matches keeps the defaults
NoColors == [bgColor |-> "transparent", borderColor |-> "currentcolor",
             textColor |-> "inherit"]

ColorsOf(state) == [bgColor |-> state.bgColor, borderColor |-> state.borderColor,
                    textColor |-> state.textColor]

cssColors(classes) ==
    IF \E status \in DOMAIN APPOINTMENT_STATES : Class(status) \in classes
    THEN ColorsOf(APPOINTMENT_STATES[CHOOSE status \in DOMAIN APPOINTMENT_STATES :
                                        Class(status) \in classes])
    ELSE NoColors

\* the labels of the time column, one every 30 minutes from startHour on;
\* Array.from takes a negative length as 0
timeSlots(window) ==
    [i \in 1..MaxOf({0, (window.endHour - window.startHour) * 2}) |->
        minutesToTime(window.startMinutes + (i - 1) * 30)]

generateAgendaHTML(groups) ==
    LET mems == members(groups)
        window == viewWindow(mems)
        processed == processedMembers(mems)
    IN  [members |-> mems,
         startHour |-> window.startHour,
         endHour |-> window.endHour,
         totalMinutes |-> window.totalMinutes,
         timeSlots |-> timeSlots(window),
         processedMembers |-> processed,
         memberColumns |-> memberColumns(processed, window)]

----------------------------------------------------------------------------
(* The layout engine as a state machine: an input is put together and the  *)
(* engine is applied to it                                                 *)

InitialGroups == { <<>>, <<EmptyGroup("m1")>>, <<EmptyGroup("m2")>> }

LayoutInit ==
    /\ memberGroups \in InitialGroups
    /\ html = None

AddAppointment(row) ==
    /\ html = None
    /\ NumAppointments(memberGroups) < MaxAppointments
    /\ row \notin AllAppointments(memberGroups)
    /\ memberGroups' = PushAppointment(memberGroups, row)
    /\ UNCHANGED html
    /\ UNCHANGED <<httpVars, processVars, jobVars>>

Generate ==
    /\ html = None
    /\ html' = Some(generateAgendaHTML(memberGroups))
    /\ UNCHANGED memberGroups
    /\ UNCHANGED <<httpVars, processVars, jobVars>>

----------------------------------------------------------------------------
(* The HTTP service: POST /generate-image.  A request is at one of the      *)
(* awaits of its handler; the code between two awaits is one step.          *)

ReqIds == 1..MaxRequests

\* a string field of the body is taken as given when it is truthy
Truthy(field) == IsSome(field) /\ Get(field) # ""

Bodies ==
    [htmlContent : {None, Some(""), Some("<html>")},
     filename : {None, Some("agenda.png")}]

Idle == [pc |-> "idle", body |-> [htmlContent |-> None, filename |-> None],
         browser |-> 0, page |-> 0, response |-> None,
         calledGetBrowser |-> FALSE, launched |-> FALSE,
         rendered |-> FALSE, imageUrl |-> None]

\* getPublicUrl(filename) of the bucket agenda-images
publicUrlOf(filename) == [bucket |-> "agenda-images", path |-> filename]

Response(status, success, text) ==
    Some([status |-> status, success |-> success, text |-> text])

HttpInit ==
    /\ browserInstance = None
    /\ browsers = <<>>
    /\ pages = <<>>
    /\ uploads = <<>>
    /\ requests = [r \in ReqIds |-> Idle]

\* res.status(code).json(...): the handler's one answer
respond(r, status, success, text) ==
    [requests EXCEPT ![r].pc = "done", ![r].response = Response(status, success, text)]

\* !browserInstance || !browserInstance.isConnected()
needsLaunch ==
    \/ ~IsSome(browserInstance)
    \/ ~browsers[Get(browserInstance)].connected

\* validationError without the check of filename
validationErrorHtmlOnly(body) ==
    IF ~Truthy(body.htmlContent) THEN Some("htmlContent es requerido")
    ELSE None

\* the two checks of the body, in the order of the handler
validationError(body) ==
    IF ~Truthy(body.htmlContent) THEN Some("htmlContent es requerido")
    ELSE IF ~Truthy(body.filename) THEN Some("filename es requerido")
    ELSE None

\* the body arrives: validation, then htmlToImage up to the await in getBrowser
Receive(r, body) ==
    /\ ~exited
    /\ requests[r].pc = "idle"
    /\ IF IsSome(validationError(body))
       THEN requests' = [respond(r, 400, FALSE, Get(validationError(body)))
                            EXCEPT ![r].body = body]
       ELSE IF needsLaunch
            THEN requests' = [requests EXCEPT ![r].body = body,
                                              ![r].pc = "launching",
                                              ![r].calledGetBrowser = TRUE,
                                              ![r].launched = TRUE]
            ELSE requests' = [requests EXCEPT ![r].body = body,
                                              ![r].pc = "haveBrowser",
                                              ![r].calledGetBrowser = TRUE,
                                              ![r].browser = Get(browserInstance)]
    /\ UNCHANGED <<browserInstance, browsers, pages, uploads>>
    /\ UNCHANGED <<layoutVars, processVars, jobVars>>

\* puppeteer.launch resolves: browserInstance is assigned and returned
LaunchSucceeds(r) ==
    /\ ~exited
    /\ requests[r].pc = "launching"
    /\ browsers' = Append(browsers, [connected |-> TRUE, launchedBy |-> r])
    /\ browserInstance' = Some(Len(browsers) + 1)
    /\ requests' = [requests EXCEPT ![r].pc = "haveBrowser",
                                    ![r].browser = Len(browsers) + 1]
    /\ UNCHANGED <<pages, uploads>>
    /\ UNCHANGED <<layoutVars, processVars, jobVars>>

\* puppeteer.launch rejects: htmlToImage rethrows, no page to close, 500
LaunchFails(r) ==
    /\ ~exited
    /\ requests[r].pc = "launching"
    /\ requests' = respond(r, 500, FALSE, "Error en generación de imagen")
    /\ UNCHANGED <<browserInstance, browsers, pages, uploads>>
    /\ UNCHANGED <<layoutVars, processVars, jobVars>>

\* browser.newPage(): a page of a connected browser opens, else it rejects
NewPage(r) ==
    /\ ~exited
    /\ requests[r].pc = "haveBrowser"
    /\ IF browsers[requests[r].browser].connected
       THEN /\ pages' = Append(pages, [browser |-> requests[r].browser,
                                       openedBy |-> r, open |-> TRUE,
                                       closeAttempted |-> FALSE])
            /\ requests' = [requests EXCEPT ![r].pc = "pageOpen",
                                            ![r].page = Len(pages) + 1]
       ELSE /\ requests' = respond(r, 500, FALSE, "Error en generación de imagen")
            /\ UNCHANGED pages
    /\ UNCHANGED <<browserInstance, browsers, uploads>>
    /\ UNCHANGED <<layoutVars, processVars, jobVars>>

\* setViewport, setContent, waitForTimeout and screenshot: the image, or an
\* error or the 30 s timeout; either way the finally block comes next
Render(r, ok) ==
    /\ ~exited
    /\ requests[r].pc = "pageOpen"
    /\ ok => browsers[requests[r].browser].connected
    /\ requests' = [requests EXCEPT ![r].pc = IF ok THEN "closeAfterImage"
                                              ELSE "closeAfterError",
                                    ![r].rendered = ok]
    /\ UNCHANGED <<browserInstance, browsers, pages, uploads>>
    /\ UNCHANGED <<layoutVars, processVars, jobVars>>

\* a finally block after which the handler goes on to the upload whether or
\* not htmlToImage has thrown
ClosePageSwallowingError(r, ok) ==
    /\ ~exited
    /\ requests[r].pc \in {"closeAfterImage", "closeAfterError"}
    /\ ok => browsers[requests[r].browser].connected
    /\ pages' = [pages EXCEPT ![requests[r].page].closeAttempted = TRUE,
                              ![requests[r].page].open = IF ok THEN FALSE ELSE @]
    /\ requests' = [requests EXCEPT ![r].pc = "uploading"]
    /\ UNCHANGED <<browserInstance, browsers, uploads>>
    /\ UNCHANGED <<layoutVars, processVars, jobVars>>

\* a page closed at the end of the try block and not in a finally block: the
\* page of a failed render is left as it is
ClosePageOnlyAfterImage(r, ok) ==
    /\ ~exited
    /\ requests[r].pc \in {"closeAfterImage", "closeAfterError"}
    /\ ok => browsers[requests[r].browser].connected
    /\ IF requests[r].pc = "closeAfterError"
       THEN /\ requests' = respond(r, 500, FALSE, "Error en generación de imagen")
            /\ UNCHANGED pages
       ELSE /\ pages' = [pages EXCEPT ![requests[r].page].closeAttempted = TRUE,
                                      ![requests[r].page].open = IF ok THEN FALSE ELSE @]
            /\ requests' = IF ok
                           THEN [requests EXCEPT ![r].pc = "uploading"]
                           ELSE respond(r, 500, FALSE,
                                        "the message of the error of page.close()")
    /\ UNCHANGED <<browserInstance, browsers, uploads>>
    /\ UNCHANGED <<layoutVars, processVars, jobVars>>

\* finally { await page.close() }: when the close rejects, its error is the
\* one htmlToImage throws
ClosePage(r, ok) ==
    /\ ~exited
    /\ requests[r].pc \in {"closeAfterImage", "closeAfterError"}
    /\ ok => browsers[requests[r].browser].connected
    /\ pages' = [pages EXCEPT ![requests[r].page].closeAttempted = TRUE,
                              ![requests[r].page].open = IF ok THEN FALSE ELSE @]
    /\ requests' = IF ok /\ requests[r].pc = "closeAfterImage"
                   THEN [requests EXCEPT ![r].pc = "uploading"]
                   ELSE respond(r, 500, FALSE,
                                IF ok THEN "Error en generación de imagen"
                                ELSE "the message of the error of page.close()")
    /\ UNCHANGED <<browserInstance, browsers, uploads>>
    /\ UNCHANGED <<layoutVars, processVars, jobVars>>

\* uploadImageToSupabase: the upload, then the public URL of the file
Upload(r, ok) ==
    /\ ~exited
    /\ requests[r].pc = "uploading"
    /\ uploads' = Append(uploads, [by |-> r, filename |-> Get(requests[r].body.filename),
                                  stored |-> ok])
    /\ requests' = IF ok
                   THEN [respond(r, 200, TRUE, "Imagen generada y subida exitosamente")
                            EXCEPT ![r].imageUrl =
                                Some(publicUrlOf(Get(requests[r].body.filename)))]
                   ELSE respond(r, 500, FALSE, "Error subiendo imagen")
    /\ UNCHANGED <<browserInstance, browsers, pages>>
    /\ UNCHANGED <<layoutVars, processVars, jobVars>>

\* the browser process dies or loses its connection; its pages go with it
Disconnect(b) ==
    /\ ~exited
    /\ b \in 1..Len(browsers)
    /\ browsers[b].connected
    /\ browsers' = [browsers EXCEPT ![b].connected = FALSE]
    /\ pages' = [p \in 1..Len(pages) |->
                    IF pages[p].browser = b THEN [pages[p] EXCEPT !.open = FALSE]
                    ELSE pages[p]]
    /\ UNCHANGED <<browserInstance, uploads, requests>>
    /\ UNCHANGED <<layoutVars, processVars, jobVars>>

----------------------------------------------------------------------------
(* The HTTP service's process: cleanup() on SIGINT, SIGTERM,               *)
(* uncaughtException and unhandledRejection                                *)

ServiceReqIds == 1..MaxServiceRequests

Causes == {"SIGINT", "SIGTERM", "uncaughtException", "unhandledRejection"}

ProcessInit ==
    /\ exited = FALSE
    /\ cleanups = <<>>

\* a cleanup() that calls process.exit(0) without awaiting browserInstance.close()
SignalExitsAtOnce(cause) ==
    /\ ~exited
    /\ Len(cleanups) < MaxSignals
    /\ cleanups' = Append(cleanups, [browser |-> browserInstance,
                                     close |-> IF IsSome(browserInstance) THEN "pending"
                                               ELSE "none"])
    /\ exited' = TRUE
    /\ UNCHANGED <<httpVars, layoutVars, jobVars>>

\* one of the four handlers runs cleanup() up to its await, or, with no
\* browserInstance, up to process.exit(0)
Signal(cause) ==
    /\ ~exited
    /\ Len(cleanups) < MaxSignals
    /\ IF IsSome(browserInstance)
       THEN /\ cleanups' = Append(cleanups, [browser |-> browserInstance,
                                             close |-> "pending"])
            /\ UNCHANGED exited
       ELSE /\ cleanups' = Append(cleanups, [browser |-> None,
                                             close |-> "none"])
            /\ exited' = TRUE
    /\ UNCHANGED <<httpVars, layoutVars, jobVars>>

\* browserInstance.close() of cleanup c resolves or rejects (the rejection
\* is caught and logged); process.exit(0) follows either way
CloseSettles(c, ok) ==
    /\ ~exited
    /\ c \in 1..Len(cleanups)
    /\ cleanups[c].close = "pending"
    /\ cleanups' = [cleanups EXCEPT ![c].close = IF ok THEN "resolved" ELSE "rejected"]
    /\ browsers' = IF ok THEN [browsers EXCEPT ![Get(cleanups[c].browser)].connected = FALSE]
                   ELSE browsers
    /\ pages' = IF ok
                THEN [p \in 1..Len(pages) |->
                         IF pages[p].browser = Get(cleanups[c].browser)
                         THEN [pages[p] EXCEPT !.open = FALSE]
                         ELSE pages[p]]
                ELSE pages
    /\ exited' = TRUE
    /\ UNCHANGED <<browserInstance, uploads, requests>>
    /\ UNCHANGED <<layoutVars, jobVars>>

----------------------------------------------------------------------------
(* The scheduled job: exports.handler of whatsapp-agenda-notifications.js. *)
(* The handler is at one of its awaits; the code between two awaits is one *)
(* step.  Every configuration row joins its organization.                  *)

\* the configurations left by the filter on send_time: 1, .., n
ConfigLists == { [i \in 1..n |-> i] : n \in 0..MaxConfigs }

JobStart == [pc |-> "fetchConfigs", index |-> 0, rendered |-> FALSE, imageUrl |-> None]

JobInit ==
    /\ job = JobStart
    /\ configsToProcess = <<>>
    /\ results = <<>>
    /\ effects = <<>>
    /\ returned = None

\* one step of the run, as the log keeps it
Effect(kind, outcome, url) ==
    [kind |-> kind, config |-> job.index, outcome |-> outcome, url |-> url]

\* an entry of the results array
Result(status, reason) ==
    [organization |-> configsToProcess[job.index], status |-> status, reason |-> reason]

\* getPublicUrl(fileName) of the file uploaded for the configuration at hand
publicUrl == [bucket |-> "agenda-images", organization |-> configsToProcess[job.index]]

Return(statusCode, message, processed, res) ==
    Some([statusCode |-> statusCode, message |-> message,
          processed_count |-> processed, results |-> res])

\* an iteration that leaves the loop when it ends, as a break would
endIterationBreaking(newResults) ==
    /\ results' = newResults
    /\ job' = [job EXCEPT !.pc = "returned"]
    /\ returned' = Return(200, "WhatsApp agenda notifications processed",
                          Len(configsToProcess), newResults)

\* the end of one iteration of the for loop, by continue or by reaching its
\* end: the next configuration's appointments are queried, or the handler
\* returns statusCode 200 with the results
endIteration(newResults) ==
    /\ results' = newResults
    /\ IF job.index < Len(configsToProcess)
       THEN /\ job' = [pc |-> "fetchAppointments", index |-> job.index + 1,
                       rendered |-> FALSE, imageUrl |-> None]
            /\ UNCHANGED returned
       ELSE /\ job' = [job EXCEPT !.pc = "returned"]
            /\ returned' = Return(200, "WhatsApp agenda notifications processed",
                                  Len(configsToProcess), newResults)

\* imageUrl is null: the else branch of if (imageUrl)
skipped == Result("skipped", "image_generation_failed")

\* the query of whatsapp_agenda_config answers, and the filter on send_time runs
FetchConfigs(outcome, selected) ==
    /\ job.pc = "fetchConfigs"
    /\ IF outcome = "error"
       THEN /\ job' = [job EXCEPT !.pc = "returned"]
            /\ returned' = Return(500, "Internal server error", 0, <<>>)
            /\ UNCHANGED configsToProcess
       ELSE IF outcome = "none"
       THEN /\ job' = [job EXCEPT !.pc = "returned"]
            /\ returned' = Return(200, "No configurations found", 0, <<>>)
            /\ UNCHANGED configsToProcess
       ELSE IF selected = <<>>
       THEN /\ job' = [job EXCEPT !.pc = "returned"]
            /\ returned' = Return(200, "No configurations for current hour", 0, <<>>)
            /\ UNCHANGED configsToProcess
       ELSE /\ job' = [job EXCEPT !.pc = "fetchAppointments", !.index = 1]
            /\ configsToProcess' = selected
            /\ UNCHANGED returned
    /\ UNCHANGED <<results, effects>>
    /\ UNCHANGED <<layoutVars, httpVars, processVars>>

\* the query of the day's appointments answers: an error or no rows
\* (continue), a rejection (the catch of the iteration), rows on which
\* generateAgendaHTML throws (generateAgendaImage returns null), or rows that
\* are grouped and laid out, and then htmlToImage starts
FetchAppointments(outcome) ==
    /\ job.pc = "fetchAppointments"
    /\ effects' = Append(effects, Effect("appointments", outcome, None))
    /\ IF outcome \in {"error", "empty"}
       THEN endIteration(results)
       ELSE IF outcome = "rejects"
       THEN endIteration(Append(results, Result("error", "error.message")))
       ELSE IF outcome = "rowsHtmlThrows"
       THEN endIteration(Append(results, skipped))
       ELSE /\ job' = [job EXCEPT !.pc = "launching"]
            /\ UNCHANGED <<results, returned>>
    /\ UNCHANGED configsToProcess
    /\ UNCHANGED <<layoutVars, httpVars, processVars>>

\* chromium.executablePath() and playwright.launch(): outside the try of
\* htmlToImage, inside the try of generateAgendaImage
JobLaunch(ok) ==
    /\ job.pc = "launching"
    /\ effects' = Append(effects, Effect("launch", IF ok THEN "ok" ELSE "failed", None))
    /\ IF ok
       THEN /\ job' = [job EXCEPT !.pc = "rendering"]
            /\ UNCHANGED <<results, returned>>
       ELSE endIteration(Append(results, skipped))
    /\ UNCHANGED configsToProcess
    /\ UNCHANGED <<layoutVars, httpVars, processVars>>

\* a render that is tried again when it fails
JobRenderRetrying(ok) ==
    /\ job.pc = "rendering"
    /\ effects' = Append(effects, Effect("render", IF ok THEN "ok" ELSE "failed", None))
    /\ job' = IF ok THEN [job EXCEPT !.pc = "closing", !.rendered = TRUE] ELSE job
    /\ UNCHANGED <<configsToProcess, results, returned>>
    /\ UNCHANGED <<layoutVars, httpVars, processVars>>

\* newPage, setViewportSize, setContent and screenshot: the image, or an
\* error or a timeout; the finally block comes next either way
JobRender(ok) ==
    /\ job.pc = "rendering"
    /\ effects' = Append(effects, Effect("render", IF ok THEN "ok" ELSE "failed", None))
    /\ job' = [job EXCEPT !.pc = "closing", !.rendered = ok]
    /\ UNCHANGED <<configsToProcess, results, returned>>
    /\ UNCHANGED <<layoutVars, httpVars, processVars>>

\* finally { try { await browser.close() } catch { log } }: then the image is
\* uploaded, or the error of the render reaches generateAgendaImage's catch
JobCloseBrowser(ok) ==
    /\ job.pc = "closing"
    /\ effects' = Append(effects, Effect("close", IF ok THEN "ok" ELSE "failed", None))
    /\ IF job.rendered
       THEN /\ job' = [job EXCEPT !.pc = "uploading"]
            /\ UNCHANGED <<results, returned>>
       ELSE endIteration(Append(results, skipped))
    /\ UNCHANGED configsToProcess
    /\ UNCHANGED <<layoutVars, httpVars, processVars>>

\* an upload whose error is not looked at: the public URL is taken and the
\* webhook posted whether or not the file was stored
JobUploadIgnoringError(ok) ==
    /\ job.pc = "uploading"
    /\ effects' = Append(effects, Effect("upload", IF ok THEN "ok" ELSE "failed",
                                         IF ok THEN Some(publicUrl) ELSE None))
    /\ job' = [job EXCEPT !.pc = "webhook", !.imageUrl = Some(publicUrl)]
    /\ UNCHANGED <<configsToProcess, results, returned>>
    /\ UNCHANGED <<layoutVars, httpVars, processVars>>

\* storage.upload and getPublicUrl: the URL, with which the webhook is
\* posted, or an error, thrown to generateAgendaImage's catch
JobUpload(ok) ==
    /\ job.pc = "uploading"
    /\ effects' = Append(effects, Effect("upload", IF ok THEN "ok" ELSE "failed",
                                         IF ok THEN Some(publicUrl) ELSE None))
    /\ IF ok
       THEN /\ job' = [job EXCEPT !.pc = "webhook", !.imageUrl = Some(publicUrl)]
            /\ UNCHANGED <<results, returned>>
       ELSE endIteration(Append(results, skipped))
    /\ UNCHANGED configsToProcess
    /\ UNCHANGED <<layoutVars, httpVars, processVars>>

\* fetch(webhookUrl) settles: a 2xx or a non-2xx response (logged), after
\* which the success record is pushed, or a rejection, which the catch of
\* the iteration records
Webhook(outcome) ==
    /\ job.pc = "webhook"
    /\ effects' = Append(effects, Effect("webhook", outcome, job.imageUrl))
    /\ IF outcome \in {"ok", "non2xx"}
       THEN endIteration(Append(results, Result("success", "")))
       ELSE endIteration(Append(results, Result("error", "error.message")))
    /\ UNCHANGED configsToProcess
    /\ UNCHANGED <<layoutVars, httpVars, processVars>>

----------------------------------------------------------------------------
(* Specifications                                                          *)

vars == <<memberGroups, html, browserInstance, browsers, pages, uploads, requests,
          exited, cleanups, job, configsToProcess, results, effects, returned>>

Init == LayoutInit /\ HttpInit /\ ProcessInit /\ JobInit

Next ==
    \/ \E row \in Rows : AddAppointment(row)
    \/ Generate

\* the layout engine
Spec == Init /\ [][Next]_vars

HttpNext ==
    \/ \E r \in ReqIds : \E body \in Bodies : Receive(r, body)
    \/ \E r \in ReqIds : LaunchSucceeds(r)
    \/ \E r \in ReqIds : LaunchFails(r)
    \/ \E r \in ReqIds : NewPage(r)
    \/ \E r \in ReqIds : \E ok \in BOOLEAN : Render(r, ok)
    \/ \E r \in ReqIds : \E ok \in BOOLEAN : ClosePage(r, ok)
    \/ \E r \in ReqIds : \E ok \in BOOLEAN : Upload(r, ok)
    \/ \E b \in 1..MaxRequests : Disconnect(b)

\* the HTTP service, which never calls the layout engine
HttpSpecInit ==
    /\ memberGroups = <<>>
    /\ html = None
    /\ HttpInit
    /\ ProcessInit
    /\ JobInit

HttpSpec == HttpSpecInit /\ [][HttpNext]_vars

ServiceNext ==
    \/ \E r \in ServiceReqIds : \E body \in Bodies : Receive(r, body)
    \/ \E r \in ServiceReqIds : LaunchSucceeds(r)
    \/ \E r \in ServiceReqIds : LaunchFails(r)
    \/ \E r \in ServiceReqIds : NewPage(r)
    \/ \E r \in ServiceReqIds : \E ok \in BOOLEAN : Render(r, ok)
    \/ \E r \in ServiceReqIds : \E ok \in BOOLEAN : ClosePage(r, ok)
    \/ \E r \in ServiceReqIds : \E ok \in BOOLEAN : Upload(r, ok)
    \/ \E b \in ServiceReqIds : Disconnect(b)
    \/ \E cause \in Causes : Signal(cause)
    \/ \E c \in 1..MaxSignals : \E ok \in BOOLEAN : CloseSettles(c, ok)

ServiceSpecInit ==
    /\ memberGroups = <<>>
    /\ html = None
    /\ HttpInit
    /\ ProcessInit
    /\ JobInit

\* the HTTP service's process: its requests, and the signals and faults
\* that end it
ServiceSpec == ServiceSpecInit /\ [][ServiceNext]_vars

JobNext ==
    \/ \E outcome \in {"error", "none", "some"} : \E selected \in ConfigLists :
          FetchConfigs(outcome, selected)
    \/ \E outcome \in {"error", "empty", "rejects", "rowsHtmlThrows", "rows"} :
          FetchAppointments(outcome)
    \/ \E ok \in BOOLEAN : JobLaunch(ok)
    \/ \E ok \in BOOLEAN : JobRender(ok)
    \/ \E ok \in BOOLEAN : JobCloseBrowser(ok)
    \/ \E ok \in BOOLEAN : JobUpload(ok)
    \/ \E outcome \in {"ok", "non2xx", "rejects"} : Webhook(outcome)

\* one run of the scheduled job
JobSpecInit ==
    /\ memberGroups = <<>>
    /\ html = None
    /\ HttpInit
    /\ ProcessInit
    /\ JobInit

JobSpec == JobSpecInit /\ [][JobNext]_vars

\* The two programs that render with a browser, the HTTP service and the
\* scheduled job, share no state: a run of either is followed, the service
\* with the job not invoked, or the job with the service's process not running.
RenderersNext ==
    \/ \E r \in ReqIds : \E body \in Bodies : Receive(r, body)
    \/ \E r \in ReqIds : LaunchSucceeds(r)
    \/ \E r \in ReqIds : LaunchFails(r)
    \/ \E r \in ReqIds : NewPage(r)
    \/ \E r \in ReqIds : \E ok \in BOOLEAN : Render(r, ok)
    \/ \E r \in ReqIds : \E ok \in BOOLEAN : ClosePage(r, ok)
    \/ \E r \in ReqIds : \E ok \in BOOLEAN : Upload(r, ok)
    \/ \E b \in 1..MaxRequests : Disconnect(b)
    \/ \E outcome \in {"error", "none", "some"} : \E selected \in ConfigLists :
          FetchConfigs(outcome, selected)
    \/ \E outcome \in {"error", "empty", "rejects", "rowsHtmlThrows", "rows"} :
          FetchAppointments(outcome)
    \/ \E ok \in BOOLEAN : JobLaunch(ok)
    \/ \E ok \in BOOLEAN : JobRender(ok)
    \/ \E ok \in BOOLEAN : JobCloseBrowser(ok)
    \/ \E ok \in BOOLEAN : JobUpload(ok)
    \/ \E outcome \in {"ok", "non2xx", "rejects"} : Webhook(outcome)

RenderersSpecInit ==
    /\ memberGroups = <<>>
    /\ html = None
    /\ HttpInit
    /\ cleanups = <<>>
    /\ configsToProcess = <<>>
    /\ results = <<>>
    /\ effects = <<>>
    /\ returned = None
    /\ \/ exited = FALSE /\ job = [JobStart EXCEPT !.pc = "notInvoked"]
       \/ exited = TRUE /\ job = JobStart

RenderersSpec == RenderersSpecInit /\ [][RenderersNext]_vars

----------------------------------------------------------------------------
(* What the claims are stated over                                         *)

Rendered == IsSome(html)
Out == Get(html)

\* the appointment boxes of member column g, as they are in the markup
Boxes(g) == Out.memberColumns[g].appointments
BoxStart(box) == timeToMinutes(box.start_time)
BoxEnd(box) == timeToMinutes(box.end_time)

\* the half-open ranges [start, end) of two boxes overlap
RangesOverlap(a, b) == BoxStart(a) < BoxEnd(b) /\ BoxStart(b) < BoxEnd(a)

IsBox(box, start, end) == box.start_time = start /\ box.end_time = end

\* C1: within one member, two appointments whose half-open time ranges
\* overlap (s1 < e2 and s2 < e1) never have the same column index.
C1_OverlappingAppointmentsDifferInColumn ==
    Rendered =>
        \A g \in 1..Len(Out.memberColumns) :
            \A i, j \in 1..Len(Boxes(g)) :
                (i # j /\ RangesOverlap(Boxes(g)[i], Boxes(g)[j]))
                    => Boxes(g)[i].column # Boxes(g)[j].column

\* [9:00,9:30) and [9:15,9:45) of one member have been laid out
C1_Witness ==
    /\ Rendered
    /\ \E g \in 1..Len(Out.memberColumns) :
          \E i, j \in 1..Len(Boxes(g)) :
              /\ IsBox(Boxes(g)[i], Time(9, 0), Time(9, 30))
              /\ IsBox(Boxes(g)[j], Time(9, 15), Time(9, 45))
              /\ Boxes(g)[i].column # Boxes(g)[j].column

\* the number of boxes of a sequence that are active at instant t
ActiveAt(boxes, t) ==
    Cardinality({ i \in 1..Len(boxes) : BoxStart(boxes[i]) <= t /\ t < BoxEnd(boxes[i]) })

\* the largest number of boxes active at one instant (a largest set begins
\* at the start of one of its boxes); 0 for no boxes
CliqueNumber(boxes) ==
    MaxOf({0} \cup { ActiveAt(boxes, BoxStart(boxes[i])) : i \in 1..Len(boxes) })

AllEndAfterStart(boxes) ==
    \A i \in 1..Len(boxes) : BoxStart(boxes[i]) < BoxEnd(boxes[i])

\* C2 as stated: for any set of appointments of one member, maxColumns
\* equals the largest number of them active at one instant (stated here for
\* the members that have an appointment).
C2_MaxColumnsIsCliqueNumberOfAnySet ==
    Rendered =>
        \A g \in 1..Len(Out.memberColumns) :
            Len(Boxes(g)) > 0
                => Out.memberColumns[g].maxColumns = CliqueNumber(Boxes(g))

\* C2 as amended: for a member with at least one appointment, each ending
\* after it starts, maxColumns equals the largest number of its appointments
\* active at one instant; for a member without appointments maxColumns is 1.
C2_MaxColumnsIsCliqueNumber ==
    Rendered =>
        \A g \in 1..Len(Out.memberColumns) :
            /\ (Len(Boxes(g)) > 0 /\ AllEndAfterStart(Boxes(g)))
                   => Out.memberColumns[g].maxColumns = CliqueNumber(Boxes(g))
            /\ Len(Boxes(g)) = 0 => Out.memberColumns[g].maxColumns = 1

\* three appointments of one member, two of them at once at most, in two columns
C2_Witness ==
    /\ Rendered
    /\ \E g \in 1..Len(Out.memberColumns) :
          /\ Len(Boxes(g)) = 3
          /\ AllEndAfterStart(Boxes(g))
          /\ CliqueNumber(Boxes(g)) = 2
          /\ Out.memberColumns[g].maxColumns = 2

\* C3: when the input holds no appointment at all (no member, or only
\* members without appointments) the view window is startHour = 8,
\* endHour = 18, totalMinutes = 600: the default, with no margin added.
C3_DefaultWindowWithoutAppointments ==
    (Rendered /\ AllAppointments(memberGroups) = {})
        => /\ Out.startHour = 8
           /\ Out.endHour = 18
           /\ Out.totalMinutes = 600
           /\ \A g \in 1..Len(Out.memberColumns) : Out.memberColumns[g].height = 1200

\* an input of one member without appointments has been laid out
C3_Witness ==
    /\ Rendered
    /\ Len(memberGroups) = 1
    /\ AllAppointments(memberGroups) = {}
    /\ Out.startHour = 8
    /\ Out.endHour = 18

\* the earliest start and the latest derived end of the input, in minutes
MinStart == MinOf({ timeToMinutes(a.start_time) : a \in MemberAppointments(Out.members) })
MaxEnd == MaxOf({ timeToMinutes(a.end_time) : a \in MemberAppointments(Out.members) })
HasAppointments == Rendered /\ AllAppointments(memberGroups) # {}

WindowFormula ==
    /\ \E q \in 0..24 :
          /\ q * 60 <= MaxOf({0, MinStart - 60})
          /\ MaxOf({0, MinStart - 60}) < (q + 1) * 60
          /\ Out.startHour = q
    /\ \E q \in 0..24 :
          /\ (q - 1) * 60 < MinOf({1440, MaxEnd + 60})
          /\ MinOf({1440, MaxEnd + 60}) <= q * 60
          /\ Out.endHour = q

\* C4 as stated: with at least one appointment, startHour =
\* floor(max(0, minStart - 60) / 60) and endHour = ceil(min(1440, maxEnd + 60) / 60),
\* hence 0 <= startHour < endHour <= 24 always.
C4_WindowPaddedClampedAndOrdered ==
    HasAppointments
        => /\ WindowFormula
           /\ 0 <= Out.startHour
           /\ Out.startHour < Out.endHour
           /\ Out.endHour <= 24

\* C4 as amended: with at least one appointment, startHour =
\* floor(max(0, minStart - 60) / 60) and endHour = ceil(min(1440, maxEnd + 60) / 60),
\* hence 0 <= startHour and endHour <= 24 always, and startHour < endHour
\* whenever every appointment ends after it starts.
C4_WindowPaddedAndClamped ==
    HasAppointments
        => /\ WindowFormula
           /\ 0 <= Out.startHour
           /\ Out.endHour <= 24
           /\ Out.totalMinutes = (Out.endHour - Out.startHour) * 60
           /\ (\A a \in MemberAppointments(Out.members) :
                  timeToMinutes(a.start_time) < timeToMinutes(a.end_time))
                  => Out.startHour < Out.endHour

\* [07:30, 08:00) and an end at 23:45 in one input: the window is 6 to 24
C4_Witness ==
    /\ HasAppointments
    /\ MinStart = 450
    /\ MaxEnd = 1425
    /\ Out.startHour = 6
    /\ Out.endHour = 24

\* the appointment the engine derived from the i-th row of group g
Derived(g, i) == Out.members[g].appointments[i]
InputRow(g, i) == memberGroups[g].appointments[i]

\* the multiset of (start_time, end_time) a member's appointments have
TimesOf(appointments) ==
    [t \in { <<appointments[i].start_time, appointments[i].end_time>> :
                i \in 1..Len(appointments) } |->
        Cardinality({ i \in 1..Len(appointments) :
                        <<appointments[i].start_time, appointments[i].end_time>> = t })]

BoxOffset(box) == BoxStart(box) - Out.startHour * 60
BoxDuration(box) == BoxEnd(box) - BoxStart(box)

AllBoxes == UNION { { Boxes(g)[i] : i \in 1..Len(Boxes(g)) } : g \in 1..Len(Out.memberColumns) }

ProperInput ==
    \A a \in MemberAppointments(Out.members) :
        timeToMinutes(a.start_time) < timeToMinutes(a.end_time)

\* C6 as stated: for every appointment top is exactly 2 * (start - startHour * 60)
\* and height is exactly 2 * duration (stated here for the inputs whose
\* appointments all end after they start).
C6_GeometryIsExactlyTwoPxPerMinute ==
    (Rendered /\ ProperInput) =>
        \A box \in AllBoxes :
            /\ box.top = Number(2 * BoxOffset(box))
            /\ box.height = Number(2 * BoxDuration(box))

\* C6 as amended: when totalMinutes is not 0, top and height are the doubles
\* (x / totalMinutes) * trackHeight with trackHeight = (endHour - startHour) * 120,
\* which are 2 * (start - startHour * 60) and 2 * duration to within one unit
\* in the last place; when totalMinutes is 0 both are NaN; in a 600-minute
\* window an appointment of 60 minutes that starts 120 minutes into the
\* window has top = 240 and height = 120 exactly.
C6_GeometryIsTwoPxPerMinuteRounded ==
    Rendered =>
        \A box \in AllBoxes :
            /\ Out.totalMinutes # 0
                  => /\ ~box.top.nan /\ ~box.height.nan
                     /\ box.top.int = 2 * BoxOffset(box)
                     /\ box.height.int = 2 * BoxDuration(box)
                     /\ box.top.halfUlps \in {0 - 2, 0, 2}
                     /\ box.height.halfUlps \in {0 - 2, 0, 2}
            /\ Out.totalMinutes = 0 => (box.top.nan /\ box.height.nan)
            /\ (Out.totalMinutes = 600 /\ BoxOffset(box) = 120 /\ BoxDuration(box) = 60)
                  => (box.top = Number(240) /\ box.height = Number(120))

\* a 600-minute window with an appointment of 60 minutes, 120 minutes in
C6_Witness ==
    /\ Rendered
    /\ Out.totalMinutes = 600
    /\ \A g \in 1..Len(Out.memberColumns) : Out.memberColumns[g].height = 1200
    /\ \E box \in AllBoxes :
          /\ BoxOffset(box) = 120
          /\ BoxDuration(box) = 60
          /\ box.top = Number(240)
          /\ box.height = Number(120)

KnownStatuses == DOMAIN APPOINTMENT_STATES

\* C7 as stated: an appointment whose status is missing or is none of the six
\* known ones is rendered with the style of 'programada'.
C7_UnknownStatusRendersAsProgramada ==
    Rendered =>
        /\ \A g \in 1..Len(memberGroups) :
              \A i \in 1..Len(memberGroups[g].appointments) :
                  ~IsSome(InputRow(g, i).status) => Derived(g, i).status = "programada"
        /\ \A box \in AllBoxes :
              box.status \notin KnownStatuses \ {"programada"}
                  => cssColors(box.classes) = ColorsOf(APPOINTMENT_STATES["programada"])

\* the left and right declarations that win for a box
Placement(box) == <<cssLeft(box.classes), cssRight(box.classes)>>
FullWidth == <<"4px", "4px">>
LeftHalf == <<"4px", "50%">>
RightHalf == <<"50%", "4px">>

\* C8 as stated: with maxColumns = 1 every appointment spans the full width;
\* with maxColumns > 1 column 0 is in the left half and every column >= 1 is
\* in the right half.
C8_ColumnsFromOneUpAreInTheRightHalf ==
    Rendered =>
        \A g \in 1..Len(Out.memberColumns) :
            \A i \in 1..Len(Boxes(g)) :
                /\ Out.memberColumns[g].maxColumns = 1 => Placement(Boxes(g)[i]) = FullWidth
                /\ (Out.memberColumns[g].maxColumns > 1 /\ Boxes(g)[i].column = 0)
                      => Placement(Boxes(g)[i]) = LeftHalf
                /\ (Out.memberColumns[g].maxColumns > 1 /\ Boxes(g)[i].column >= 1)
                      => Placement(Boxes(g)[i]) = RightHalf

\* C8 as amended: with maxColumns = 1 every appointment spans the full width;
\* with maxColumns > 1 an appointment in column 1 is in the right half and an
\* appointment in any other column (0, 2, 3, ...) is in the left half, the
\* same half as column 0.
C8_OnlyColumnOneIsInTheRightHalf ==
    Rendered =>
        \A g \in 1..Len(Out.memberColumns) :
            \A i \in 1..Len(Boxes(g)) :
                /\ Out.memberColumns[g].maxColumns = 1 => Placement(Boxes(g)[i]) = FullWidth
                /\ (Out.memberColumns[g].maxColumns > 1 /\ Boxes(g)[i].column = 1)
                      => Placement(Boxes(g)[i]) = RightHalf
                /\ (Out.memberColumns[g].maxColumns > 1 /\ Boxes(g)[i].column # 1)
                      => Placement(Boxes(g)[i]) = LeftHalf

\* a member with three columns: one appointment in each of columns 0, 1, 2
C8_Witness ==
    /\ Rendered
    /\ \E g \in 1..Len(Out.memberColumns) :
          /\ Out.memberColumns[g].maxColumns = 3
          /\ \E i, j, k \in 1..Len(Boxes(g)) :
                /\ Boxes(g)[i].column = 0 /\ Placement(Boxes(g)[i]) = LeftHalf
                /\ Boxes(g)[j].column = 1 /\ Placement(Boxes(g)[j]) = RightHalf
                /\ Boxes(g)[k].column = 2 /\ Placement(Boxes(g)[k]) = LeftHalf

\* what request r has caused outside its own answer
PagesOpenedBy(r) == { p \in 1..Len(pages) : pages[p].openedBy = r }
BrowsersLaunchedBy(r) == { b \in 1..Len(browsers) : browsers[b].launchedBy = r }
UploadsBy(r) == { u \in 1..Len(uploads) : uploads[u].by = r }

LacksField(r) ==
    /\ requests[r].pc # "idle"
    /\ (~Truthy(requests[r].body.htmlContent) \/ ~Truthy(requests[r].body.filename))

\* C10: a request whose body lacks htmlContent or filename is answered 400
\* with success:false, and for it no browser is obtained or launched, no page
\* is opened and nothing is uploaded.
C10_MissingFieldIs400WithoutSideEffects ==
    \A r \in ReqIds :
        LacksField(r)
            => /\ requests[r].pc = "done"
               /\ IsSome(requests[r].response)
               /\ Get(requests[r].response).status = 400
               /\ Get(requests[r].response).success = FALSE
               /\ ~requests[r].calledGetBrowser
               /\ ~requests[r].launched
               /\ BrowsersLaunchedBy(r) = {}
               /\ PagesOpenedBy(r) = {}
               /\ UploadsBy(r) = {}

\* a request without filename has its 400 while another request, with both
\* fields, has launched the browser, opened a page and uploaded
C10_Witness ==
    \E r, q \in ReqIds :
        /\ requests[r].pc = "done"
        /\ Truthy(requests[r].body.htmlContent)
        /\ requests[r].body.filename = None
        /\ Get(requests[r].response).status = 400
        /\ BrowsersLaunchedBy(q) # {}
        /\ PagesOpenedBy(q) # {}
        /\ UploadsBy(q) # {}

\* request r has arrived with both fields
HasBothFields(r) ==
    /\ requests[r].pc # "idle"
    /\ Truthy(requests[r].body.htmlContent)
    /\ Truthy(requests[r].body.filename)

Answered(r, status, success) ==
    /\ requests[r].pc = "done"
    /\ IsSome(requests[r].response)
    /\ Get(requests[r].response).status = status
    /\ Get(requests[r].response).success = success

\* the next step of request r, whichever it is
StepOf(r) ==
    \/ \E body \in Bodies : Receive(r, body)
    \/ LaunchSucceeds(r)
    \/ LaunchFails(r)
    \/ NewPage(r)
    \/ \E ok \in BOOLEAN : Render(r, ok)
    \/ \E ok \in BOOLEAN : ClosePage(r, ok)
    \/ \E ok \in BOOLEAN : Upload(r, ok)

\* C11: a request with both fields is rendered, then uploaded; it is
\* answered success:true with the URL the upload returned only if the render
\* and the upload both succeeded; after a failed render no upload is attempted
\* and the answer is 500 success:false; after a failed upload the answer is
\* 500 success:false; the request has no answer before its handler is done
\* and one answer then, a handler that is not done has a next step, and the
\* process goes on to take the requests not yet received.
C11_OutcomeOfARequestWithBothFields ==
    \A r \in ReqIds :
        HasBothFields(r)
            => /\ IsSome(requests[r].response) <=> requests[r].pc = "done"
               /\ requests[r].pc = "done"
                     => \/ Answered(r, 200, TRUE)
                        \/ Answered(r, 500, FALSE)
               /\ UploadsBy(r) # {} => requests[r].rendered
               /\ Cardinality(UploadsBy(r)) <= 1
               /\ Answered(r, 200, TRUE)
                     => /\ requests[r].rendered
                        /\ \E u \in UploadsBy(r) :
                              /\ uploads[u].stored
                              /\ requests[r].imageUrl
                                     = Some(publicUrlOf(uploads[u].filename))
               /\ (requests[r].pc = "done" /\ ~requests[r].rendered)
                     => /\ UploadsBy(r) = {}
                        /\ Answered(r, 500, FALSE)
               /\ (\E u \in UploadsBy(r) : ~uploads[u].stored)
                     => Answered(r, 500, FALSE)
               /\ requests[r].pc # "done" => ENABLED StepOf(r)
               /\ ~exited
               /\ \A q \in ReqIds : requests[q].pc = "idle" => ENABLED StepOf(q)

\* one request was answered 500 after its render failed, without an upload,
\* and a request that opened its page later was answered with the URL of its
\* upload
C11_Witness ==
    \E r, q \in ReqIds :
        /\ HasBothFields(r)
        /\ Answered(r, 500, FALSE)
        /\ PagesOpenedBy(r) # {}
        /\ ~requests[r].rendered
        /\ UploadsBy(r) = {}
        /\ HasBothFields(q)
        /\ Answered(q, 200, TRUE)
        /\ requests[q].page > requests[r].page
        /\ IsSome(requests[q].imageUrl)

\* the steps of kind `kind' the run has taken for the i-th configuration
EffectsOf(i, kind) ==
    { e \in 1..Len(effects) : effects[e].config = i /\ effects[e].kind = kind }

\* the entries of the results array for the i-th configuration
ResultsOf(i) ==
    { k \in 1..Len(results) : results[k].organization = configsToProcess[i] }

ConfigIndices == 1..Len(configsToProcess)

\* the iteration of the i-th configuration is over
FinishedConfig(i) == job.pc = "returned" \/ job.index > i

\* generateAgendaHTML, the launch, the render or the upload failed for i
ImageFailed(i) ==
    \/ \E e \in EffectsOf(i, "appointments") : effects[e].outcome = "rowsHtmlThrows"
    \/ \E kind \in {"launch", "render", "upload"} :
          \E e \in EffectsOf(i, kind) : effects[e].outcome = "failed"

\* the webhook of i was answered non-2xx, or the request failed
WebhookFailed(i) ==
    \E e \in EffectsOf(i, "webhook") : effects[e].outcome \in {"non2xx", "rejects"}

\* C12: when generating the image of one configuration or delivering its
\* webhook fails, the failure ends that iteration with one result record for
\* that organization, the loop goes on (the appointments of every later
\* configuration of configsToProcess are queried), and the handler returns
\* statusCode 200 with the results.
C12_FailureOfOneOrganizationIsIsolated ==
    \A i \in ConfigIndices :
        (ImageFailed(i) \/ WebhookFailed(i))
            => /\ FinishedConfig(i) => Cardinality(ResultsOf(i)) = 1
               /\ job.pc # "returned" => returned = None
               /\ job.pc = "returned"
                     => /\ IsSome(returned)
                        /\ Get(returned).statusCode = 200
                        /\ Get(returned).processed_count = Len(configsToProcess)
                        /\ Get(returned).results = results
                        /\ \A j \in ConfigIndices :
                              j > i => EffectsOf(j, "appointments") # {}

\* the render of the first of two configurations failed, the webhook of the
\* second was refused, and the handler returned 200 with a record for each
C12_Witness ==
    /\ Len(configsToProcess) = 2
    /\ \E e \in EffectsOf(1, "render") : effects[e].outcome = "failed"
    /\ \E e \in EffectsOf(2, "webhook") : effects[e].outcome = "rejects"
    /\ job.pc = "returned"
    /\ Get(returned).statusCode = 200
    /\ Len(results) = 2

\* C13: a webhook that fails (a non-2xx response or a failed request) is
\* only logged: it is not sent again, the run does not fail, and the result
\* record of the organization says success.
C13_WebhookFailureIsRecordedAsSuccess ==
    \A i \in ConfigIndices :
        (WebhookFailed(i) /\ FinishedConfig(i))
            => /\ Cardinality(EffectsOf(i, "webhook")) = 1
               /\ \A k \in ResultsOf(i) : results[k].status = "success"
               /\ Cardinality(ResultsOf(i)) = 1
               /\ job.pc = "returned" => Get(returned).statusCode = 200

\* the render or the upload of the i-th configuration failed
RenderOrUploadFailed(i) ==
    \E kind \in {"render", "upload"} :
        \E e \in EffectsOf(i, kind) : effects[e].outcome = "failed"

\* C14: in one run, for each configuration the render, the upload and the
\* webhook POST are each attempted at most once; after a failed render or a
\* failed upload nothing more is attempted for that configuration but closing
\* the browser: no launch, render, upload or webhook follows, and its
\* iteration ends with the record 'skipped'.
C14_NoRetries ==
    \A i \in ConfigIndices :
        /\ \A kind \in {"launch", "render", "upload", "webhook"} :
              Cardinality(EffectsOf(i, kind)) <= 1
        /\ \A e \in 1..Len(effects) :
              (/\ effects[e].config = i
               /\ effects[e].kind \in {"render", "upload"}
               /\ effects[e].outcome = "failed")
                  => \A f \in 1..Len(effects) :
                        (f > e /\ effects[f].config = i) => effects[f].kind = "close"
        /\ (RenderOrUploadFailed(i) /\ FinishedConfig(i))
              => /\ EffectsOf(i, "webhook") = {}
                 /\ Cardinality(ResultsOf(i)) = 1
                 /\ \A k \in ResultsOf(i) : results[k].status = "skipped"

\* the render of the first configuration and the upload of the second both
\* failed, each once, and the run is over
C14_Witness ==
    /\ Len(configsToProcess) = 2
    /\ job.pc = "returned"
    /\ \E e \in EffectsOf(1, "render") : effects[e].outcome = "failed"
    /\ Cardinality(EffectsOf(1, "render")) = 1
    /\ EffectsOf(1, "upload") = {}
    /\ \E e \in EffectsOf(2, "upload") : effects[e].outcome = "failed"
    /\ Cardinality(EffectsOf(2, "upload")) = 1
    /\ EffectsOf(2, "webhook") = {}

\* the cleanups that have reached process.exit(0)
ExitedBy == { c \in 1..Len(cleanups) : cleanups[c].close \in {"none", "resolved", "rejected"} }

\* C15: SIGINT, SIGTERM, uncaughtException and unhandledRejection run
\* cleanup: when it finds a browser in browserInstance it calls close() on it
\* and the process exits only once that close has settled; the process exits
\* when the close has failed as when it has succeeded, and at once when there
\* is no browser.
C15_CleanupClosesTheBrowserBeforeExit ==
    /\ exited <=> ExitedBy # {}
    /\ \A c \in 1..Len(cleanups) :
          /\ cleanups[c].close = "none" <=> cleanups[c].browser = None
          /\ IsSome(cleanups[c].browser)
                => /\ Get(cleanups[c].browser) \in 1..Len(browsers)
                   /\ cleanups[c].close \in {"pending", "resolved", "rejected"}
          /\ cleanups[c].close = "none" => browserInstance = None
          /\ cleanups[c].close = "resolved"
                => ~browsers[Get(cleanups[c].browser)].connected
    /\ (exited /\ IsSome(browserInstance))
          => \E c \in ExitedBy : cleanups[c].close \in {"resolved", "rejected"}

\* a signal found a browser, its close() failed, and the process has exited
C15_Witness ==
    /\ exited
    /\ \E c \in 1..Len(cleanups) :
          /\ IsSome(cleanups[c].browser)
          /\ cleanups[c].close = "rejected"
          /\ browsers[Get(cleanups[c].browser)].connected

\* the browsers that have been launched and are still running
LiveBrowsers == { b \in 1..Len(browsers) : browsers[b].connected }

\* request r holds a browser it got from getBrowser and has not answered yet
UsesBrowser(r) ==
    requests[r].pc \in {"haveBrowser", "pageOpen", "closeAfterImage", "closeAfterError"}

\* C16: at any time, also while requests call getBrowser during a launch,
\* at most one browser has been launched and not closed, and a request that
\* works on a running browser works on the one held in browserInstance.
C16_AtMostOneBrowserIsLive ==
    /\ Cardinality(LiveBrowsers) <= 1
    /\ \A r \in ReqIds :
          (UsesBrowser(r) /\ requests[r].browser \in LiveBrowsers)
              => browserInstance = Some(requests[r].browser)

\* the appointment of member g placed i-th, with the minutes the column
\* search computed for it
Placed(g, i) == Out.processedMembers[g].appointments[i]

PositiveHeight(box) == ~box.height.nan /\ box.height.int > 0

\* C17: once the end time is derived, every appointment ends, in minutes,
\* strictly after it starts, so its duration and its height are positive.
C17_EveryEndIsAfterItsStart ==
    Rendered =>
        \A g \in 1..Len(Out.memberColumns) :
            \A i \in 1..Len(Boxes(g)) :
                /\ BoxStart(Boxes(g)[i]) < BoxEnd(Boxes(g)[i])
                /\ Placed(g, i).duration > 0
                /\ PositiveHeight(Boxes(g)[i])

\* C17 as amended: an appointment without an explicit end_time ends, in
\* minutes, strictly after it starts (its end is start + service duration,
\* or start + 30, and is not wrapped at 24:00); an explicit end_time is kept
\* as given, so such an appointment ends after it starts only when the given
\* end is later than the start; an appointment that ends after it starts has
\* a positive duration and a positive height.
C17_DerivedEndIsAfterItsStart ==
    Rendered =>
        \A g \in 1..Len(Out.memberColumns) :
            /\ \A i \in 1..Len(memberGroups[g].appointments) :
                  /\ ~IsSome(InputRow(g, i).end_time)
                        => timeToMinutes(Derived(g, i).end_time)
                             > timeToMinutes(Derived(g, i).start_time)
                  /\ IsSome(InputRow(g, i).end_time)
                        => Derived(g, i).end_time = Get(InputRow(g, i).end_time)
            /\ \A i \in 1..Len(Boxes(g)) :
                  /\ Placed(g, i).duration = BoxEnd(Boxes(g)[i]) - BoxStart(Boxes(g)[i])
                  /\ BoxStart(Boxes(g)[i]) < BoxEnd(Boxes(g)[i])
                        => /\ Placed(g, i).duration > 0
                           /\ PositiveHeight(Boxes(g)[i])
                  /\ BoxStart(Boxes(g)[i]) >= BoxEnd(Boxes(g)[i])
                        => \E j \in 1..Len(memberGroups[g].appointments) :
                              /\ InputRow(g, j).start_time = Boxes(g)[i].start_time
                              /\ InputRow(g, j).end_time = Some(Boxes(g)[i].end_time)

\* 23:45 without end_time or duration ends at 24:15, after its start, next
\* to one given as 23:30 to 00:30, which ends before its start
C17_Witness ==
    /\ Rendered
    /\ \E a \in AllBoxes :
          /\ IsBox(a, Time(23, 45), Time(24, 15))
          /\ PositiveHeight(a)
    /\ \E a \in AllBoxes :
          /\ IsBox(a, Time(23, 30), Time(0, 30))
          /\ ~PositiveHeight(a)

\* column c is free for the i-th box of member g: no box placed before it
\* in column c overlaps it
ColumnFree(g, i, c) ==
    \A j \in 1..(i - 1) :
        Boxes(g)[j].column = c => ~RangesOverlap(Boxes(g)[j], Boxes(g)[i])

\* C18: the appointments of a member are placed in ascending order of start
\* time, and each gets the lowest column c >= 0 in which no appointment placed
\* before it overlaps it under the half-open test; an appointment that starts
\* when another ends does not overlap it, so a member whose appointments
\* overlap nowhere has them all in column 0 and maxColumns = 1.
C18_LowestFreeColumnInStartOrder ==
    Rendered =>
        \A g \in 1..Len(Out.memberColumns) :
            /\ TimesOf(Boxes(g)) = TimesOf(Out.members[g].appointments)
            /\ \A i, j \in 1..Len(Boxes(g)) :
                  i < j => BoxStart(Boxes(g)[i]) <= BoxStart(Boxes(g)[j])
            /\ \A i \in 1..Len(Boxes(g)) :
                  /\ Boxes(g)[i].column >= 0
                  /\ ColumnFree(g, i, Boxes(g)[i].column)
                  /\ \A c \in 0..(Boxes(g)[i].column - 1) : ~ColumnFree(g, i, c)
            /\ (\A i, j \in 1..Len(Boxes(g)) :
                   i # j => ~RangesOverlap(Boxes(g)[i], Boxes(g)[j]))
                  => /\ \A i \in 1..Len(Boxes(g)) : Boxes(g)[i].column = 0
                     /\ Out.memberColumns[g].maxColumns = 1

\* [9:00,9:30) and [9:30,10:00) of one member have been placed, both in
\* column 0
C18_Witness ==
    /\ Rendered
    /\ \E g \in 1..Len(Out.memberColumns) :
          /\ Len(Boxes(g)) = 2
          /\ IsBox(Boxes(g)[1], Time(9, 0), Time(9, 30))
          /\ IsBox(Boxes(g)[2], Time(9, 30), Time(10, 0))
          /\ Boxes(g)[1].column = 0
          /\ Boxes(g)[2].column = 0
          /\ Out.memberColumns[g].maxColumns = 1

\* the calls of minutesToTime of one run: the argument and the result.  The
\* end of an appointment without end_time is minutesToTime(start + duration),
\* the i-th label of the time column is minutesToTime(startHour * 60 + 30 * (i - 1))
DurationOfRow(row) ==
    IF IsSome(row.services.duration_minutes) /\ Get(row.services.duration_minutes) # 0
    THEN Get(row.services.duration_minutes)
    ELSE DefaultDurationMinutes

MinutesToTimeCalls ==
    UNION { { <<timeToMinutes(InputRow(g, i).start_time) + DurationOfRow(InputRow(g, i)),
                Derived(g, i).end_time>> :
                  i \in { k \in 1..Len(memberGroups[g].appointments) :
                            ~IsSome(InputRow(g, k).end_time) } } :
            g \in 1..Len(memberGroups) }
    \cup { <<Out.startHour * 60 + 30 * (i - 1), Out.timeSlots[i]>> :
              i \in 1..Len(Out.timeSlots) }

\* C19: for m >= 0, minutesToTime(m) is the time of day of minute m taken
\* modulo 24 hours: HH in 00..23, MM in 00..59, also for m >= 1440.
C19_MinutesToTimeWrapsAtMidnight ==
    Rendered =>
        \A call \in MinutesToTimeCalls :
            /\ call[2].hh \in 0..23
            /\ call[2].mm \in 0..59
            /\ call[2].hh = (call[1] \div 60) % 24
            /\ call[2].mm = call[1] % 60

\* C19 as amended: for m >= 0, minutesToTime(m) has HH = floor(m / 60), not
\* wrapped (HH is 24 or more for m >= 1440), and MM = m mod 60 in 00..59, so
\* that timeToMinutes gives m back; the result is a time of day exactly when
\* m < 1440.
C19_MinutesToTimeDoesNotWrap ==
    Rendered =>
        \A call \in MinutesToTimeCalls :
            /\ call[1] >= 0
            /\ call[2].mm \in 0..59
            /\ call[2].hh >= 0
            /\ timeToMinutes(call[2]) = call[1]
            /\ call[2].hh \in 0..23 <=> call[1] < DayMinutes

\* minutesToTime(1455), the end of 23:45 plus 30 minutes, is 24:15, and
\* minutesToTime(1380) is the label 23:00
C19_Witness ==
    /\ Rendered
    /\ <<1455, Time(24, 15)>> \in MinutesToTimeCalls
    /\ <<1380, Time(23, 0)>> \in MinutesToTimeCalls

\* C20: with at least one appointment, the window leaves at least 60 minutes
\* before the earliest start and at least 60 minutes after the latest end:
\* startHour * 60 <= minStart - 60 and endHour * 60 >= maxEnd + 60, for
\* every input.
C20_MarginOfAnHourOnBothSides ==
    HasAppointments
        => /\ Out.startHour * 60 <= MinStart - 60
           /\ Out.endHour * 60 >= MaxEnd + 60

\* C20 as amended: with at least one appointment, the window leaves at least
\* 60 minutes before the earliest start unless that start is before 01:00,
\* when the window begins at 00:00, and at least 60 minutes after the latest
\* end unless that end is after 23:00, when the window ends at 24:00:
\* startHour * 60 <= max(0, minStart - 60) and
\* endHour * 60 >= min(1440, maxEnd + 60).
C20_MarginOfAnHourWithinTheDay ==
    HasAppointments
        => /\ Out.startHour * 60 <= MaxOf({0, MinStart - 60})
           /\ Out.endHour * 60 >= MinOf({1440, MaxEnd + 60})
           /\ MinStart >= 60 => Out.startHour * 60 <= MinStart - 60
           /\ MinStart < 60 => Out.startHour = 0
           /\ MaxEnd <= 1380 => Out.endHour * 60 >= MaxEnd + 60
           /\ MaxEnd > 1380 => Out.endHour = 24

\* the day's appointments run from 00:30 to 23:45: the window is the whole
\* day, with 30 minutes before the first and 15 after the last
C20_Witness ==
    /\ HasAppointments
    /\ MinStart = 30
    /\ MaxEnd = 1425
    /\ Out.startHour = 0
    /\ Out.endHour = 24

\* what a modelled double is away from its integer part, in units of 2^-53
ErrorUnits(d) == d.halfUlps * Pow2(FloorLog2(Abs(d.int)))

\* top >= 0
TopInsideTrack(box) ==
    /\ ~box.top.nan
    /\ \/ box.top.int > 0
       \/ box.top.int = 0 /\ box.top.halfUlps >= 0

\* top + height <= trackHeight, as a sum of reals
BottomInsideTrack(box, trackHeight) ==
    /\ ~box.top.nan
    /\ ~box.height.nan
    /\ \/ box.top.int + box.height.int < trackHeight
       \/ /\ box.top.int + box.height.int = trackHeight
          /\ ErrorUnits(box.top) + ErrorUnits(box.height) <= 0

\* C21: every appointment with a well-formed start time and an end time
\* derived by the derivation policy has its box within the member track:
\* top >= 0 and top + height <= (endHour - startHour) * 120 (stated here for
\* the inputs whose appointments all end after they start).
C21_BoxesLieWithinTheTrack ==
    (Rendered /\ ProperInput) =>
        \A g \in 1..Len(Out.memberColumns) :
            \A i \in 1..Len(Boxes(g)) :
                /\ TopInsideTrack(Boxes(g)[i])
                /\ BottomInsideTrack(Boxes(g)[i], Out.memberColumns[g].height)

\* the steps of kind `kind' for configuration i that went well before step w
DoneBefore(i, kind, w) ==
    { e \in EffectsOf(i, kind) : e < w /\ effects[e].outcome = "ok" }

\* C22: for each organization the webhook is posted only once its image has
\* been rendered and then uploaded with success, with the URL of that upload
\* as image_url; when the render or the upload fails, when the organization
\* has no appointments and when its appointment query fails, no webhook is
\* posted for it in the run.
C22_WebhookOnlyAfterTheUpload ==
    \A i \in ConfigIndices :
        /\ \A w \in EffectsOf(i, "webhook") :
              /\ DoneBefore(i, "render", w) # {}
              /\ \E u \in DoneBefore(i, "upload", w) :
                    /\ \A r \in DoneBefore(i, "render", w) : r < u
                    /\ IsSome(effects[u].url)
                    /\ effects[w].url = effects[u].url
                    /\ Get(effects[w].url).organization = configsToProcess[i]
        /\ (\/ \E kind \in {"launch", "render", "upload"} :
                  \E e \in EffectsOf(i, kind) : effects[e].outcome = "failed"
            \/ \E e \in EffectsOf(i, "appointments") : effects[e].outcome # "rows")
              => EffectsOf(i, "webhook") = {}

\* a run of two configurations: the upload of the first failed and no
\* webhook was posted for it; the webhook of the second was posted after its
\* upload, with the URL of that upload
C22_Witness ==
    /\ Len(configsToProcess) = 2
    /\ job.pc = "returned"
    /\ \E e \in EffectsOf(1, "upload") : effects[e].outcome = "failed"
    /\ EffectsOf(1, "webhook") = {}
    /\ \E w \in EffectsOf(2, "webhook") :
          \E u \in DoneBefore(2, "upload", w) : effects[w].url = effects[u].url

\* request r's call of htmlToImage has returned or thrown
HtmlToImageIsOver(r) == requests[r].pc \in {"uploading", "done"}

\* the job's htmlToImage for configuration i launched a browser and has
\* returned or thrown
JobHtmlToImageIsOver(i) ==
    /\ \E e \in EffectsOf(i, "launch") : effects[e].outcome = "ok"
    /\ \/ FinishedConfig(i)
       \/ job.index = i /\ job.pc \in {"uploading", "webhook"}

\* the job's htmlToImage has tried to close, once and after the render, the
\* browser it launched for configuration i
JobBrowserCloseAttempted(i) ==
    /\ Cardinality(EffectsOf(i, "close")) = 1
    /\ \A c \in EffectsOf(i, "close") :
          /\ \E l \in EffectsOf(i, "launch") : l < c /\ effects[l].outcome = "ok"
          /\ \E r \in EffectsOf(i, "render") : r < c

\* C23, as stated: every page opened by the HTTP service's htmlToImage has
\* its close attempted before htmlToImage returns or throws, so that no page
\* of a request whose htmlToImage is over remains open; and the job's
\* htmlToImage attempts to close the browser it launched on every path.
C23_NoPageRemainsOpen ==
    /\ \A r \in ReqIds :
          HtmlToImageIsOver(r) =>
              \A p \in PagesOpenedBy(r) :
                  pages[p].closeAttempted /\ ~pages[p].open
    /\ \A i \in ConfigIndices :
          JobHtmlToImageIsOver(i) => JobBrowserCloseAttempted(i)

\* C23, amended: every page opened by the HTTP service's htmlToImage has its
\* close attempted before htmlToImage returns or throws (after the image,
\* after a failed setContent or screenshot and after the timeout); a page
\* remains open afterwards only when that page.close() has rejected, which
\* the request answers with status 500; and the job's htmlToImage attempts
\* to close the browser it launched on every path.
C23_EveryCloseIsAttempted ==
    /\ \A r \in ReqIds :
          HtmlToImageIsOver(r) =>
              \A p \in PagesOpenedBy(r) :
                  /\ pages[p].closeAttempted
                  /\ pages[p].open =>
                        /\ requests[r].pc = "done"
                        /\ Get(requests[r].response).status = 500
                        /\ Get(requests[r].response).text =
                               "the message of the error of page.close()"
    /\ \A i \in ConfigIndices :
          JobHtmlToImageIsOver(i) => JobBrowserCloseAttempted(i)

\* both requests are answered: the render of one failed and its page was
\* closed all the same; the close of the other's page rejected and the page
\* is still open
C23_Witness ==
    /\ \A r \in ReqIds : requests[r].pc = "done"
    /\ \E r \in ReqIds :
          /\ ~requests[r].rendered
          /\ \E p \in PagesOpenedBy(r) : pages[p].closeAttempted /\ ~pages[p].open
    /\ \E r \in ReqIds :
          \E p \in PagesOpenedBy(r) : pages[p].closeAttempted /\ pages[p].open

====
